---- MODULE Spec2Model ----
(***************************************************************************)
(* Model of pro9.py: the risk evaluator HealthEngine.analyze, the          *)
(* simulator thread simulate_sensors, the Flask handlers get_data and      *)
(* index, and the page script fetchData.                                   *)
(*                                                                         *)
(* Vitals are floats in the program.  Here they are integers counting      *)
(* halves (1/U), the step of the SpO2 drift, so 72 BPM is 72*U = 144.      *)
(* Every comparison in the program is against a whole number, so the grid  *)
(* holds values below, at and above each threshold.                        *)
(***************************************************************************)
EXTENDS Integers, Sequences, FiniteSets

U == 2

\* ------------------------------------------------------------------ bounds
\* last tick of the simulator in Spec
MaxTick == 27
\* last tick of the simulator in SpecLive
LiveTicks == 38
\* number of polls the page script makes in SpecChart
MaxPolls == 22
\* largest |noise| on the heart rate, in 1/U BPM
HrNoiseMax == 4
\* largest |noise| on SpO2, in 1/U percent
SpNoiseMax == 1
\* the arguments InitAnalyze draws reach this far past the thresholds
HrSpan == 4
SpSpan == 4
BpSpan == 1

NoiseHr == {-HrNoiseMax, 0, HrNoiseMax}
NoiseSpo2 == {-SpNoiseMax, 0, SpNoiseMax}

ArgHr == (90 * U - HrSpan)..(100 * U + HrSpan)
ArgSpo2 == (95 * U - SpSpan)..(96 * U + SpSpan)
ArgBp == (120 - BpSpan)..(120 + BpSpan)

VARIABLES
    virtual_vitals, \* the shared dict (line 38)
    t,              \* simulate_sensors' tick counter
    noise_hr,       \* this tick's sample of np.random.normal(0, 2)
    noise_spo2,     \* this tick's sample of np.random.normal(0, 0.5)
    sim_pc,         \* simulate_sensors' position: the line it executes next
    h_pc,           \* get_data's position
    h_hr, h_bp, h_spo2, \* the arguments get_data has evaluated for analyze
    analysis,       \* what analyze returned to get_data
    resp,           \* the /data response in flight: <<>> or <<json>>
    loaded,         \* the page of / runs in the browser
    polls,          \* the number of fetchData calls made
    chart,          \* chart.data of the page: labels and the two datasets
    dom             \* the page's displays: <<>> until the first update

simVars == <<virtual_vitals, t, noise_hr, noise_spo2, sim_pc>>
hVars == <<h_pc, h_hr, h_bp, h_spo2, analysis, resp>>
cVars == <<loaded, polls, chart, dom>>
vars == <<virtual_vitals, t, noise_hr, noise_spo2, sim_pc,
          h_pc, h_hr, h_bp, h_spo2, analysis, resp, loaded, polls, chart,
          dom>>

Min(a, b) == IF a < b THEN a ELSE b
Max(a, b) == IF a > b THEN a ELSE b

\* ----------------------------------------------------------- faulty variants
\* line 23 as an elif of the two tests before it
Score_elif(hr, bp_sys, spo2) ==
    LET s1 == IF hr > 100 * U THEN 20 ELSE 0
        s2 == IF spo2 < 95 * U THEN s1 + 40 ELSE s1
    IN  IF s2 = 0 /\ hr > 90 * U /\ spo2 < 96 * U THEN 30 ELSE s2

\* line 20 with <= for <
Score_le(hr, bp_sys, spo2) ==
    LET s1 == IF hr > 100 * U THEN 20 ELSE 0
        s2 == IF spo2 <= 95 * U THEN s1 + 40 ELSE s1
    IN  IF hr > 90 * U /\ spo2 < 96 * U THEN s2 + 30 ELSE s2

\* line 24 with a penalty of 50
Score_heavy(hr, bp_sys, spo2) ==
    LET s1 == IF hr > 100 * U THEN 20 ELSE 0
        s2 == IF spo2 < 95 * U THEN s1 + 40 ELSE s1
    IN  IF hr > 90 * U /\ spo2 < 96 * U THEN s2 + 50 ELSE s2

\* line 27 with >= for >
Status_ge(score) ==
    IF score >= 70 THEN "CRITICAL"
    ELSE IF score > 40 THEN "MODERATE RISK"
    ELSE "Normal"

\* ------------------------------------------------------- HealthEngine.analyze
\* lines 18-24: the score before the clamp
Score(hr, bp_sys, spo2) ==
    LET s1 == IF hr > 100 * U THEN 20 ELSE 0
        s2 == IF spo2 < 95 * U THEN s1 + 40 ELSE s1
        s3 == IF hr > 90 * U /\ spo2 < 96 * U THEN s2 + 30 ELSE s2
    IN  s3

\* lines 26-28
Status(score) ==
    IF score > 70 THEN "CRITICAL"
    ELSE IF score > 40 THEN "MODERATE RISK"
    ELSE "Normal"

\* line 30
Analyze(hr, bp_sys, spo2) ==
    [score |-> Min(Score(hr, bp_sys, spo2), 100),
     status |-> Status(Score(hr, bp_sys, spo2))]

NoAnalysis == [score |-> 0, status |-> "none"]
EmptyChart == [labels |-> <<>>, hr |-> <<>>, spo2 |-> <<>>]

\* ---------------------------------------------------------- simulate_sensors
\* line 46 followed by a write of the blood pressure
SimSetHr_bp ==
    /\ sim_pc = "set_hr"
    /\ t' = t + 1
    /\ \E n \in NoiseHr :
         /\ noise_hr' = n
         /\ virtual_vitals' =
              [virtual_vitals EXCEPT !.hr = 72 * U + n, !.bp = 120 + n]
    /\ sim_pc' = "set_spo2"
    /\ UNCHANGED <<noise_spo2, hVars, cVars>>

\* lines 44, 46: t += 1; virtual_vitals["hr"] = 72 + noise
SimSetHr ==
    /\ sim_pc = "set_hr"
    /\ t' = t + 1
    /\ \E n \in NoiseHr :
         /\ noise_hr' = n
         /\ virtual_vitals' = [virtual_vitals EXCEPT !.hr = 72 * U + n]
    /\ sim_pc' = "set_spo2"
    /\ UNCHANGED <<noise_spo2, hVars, cVars>>

\* line 47: virtual_vitals["spo2"] = 98 + noise
SimSetSpo2 ==
    /\ sim_pc = "set_spo2"
    /\ \E n \in NoiseSpo2 :
         /\ noise_spo2' = n
         /\ virtual_vitals' = [virtual_vitals EXCEPT !.spo2 = 98 * U + n]
    /\ sim_pc' = "drift_hr"
    /\ UNCHANGED <<t, noise_hr, hVars, cVars>>

\* line 51 with = for +=
SimDriftHr_assign ==
    /\ sim_pc = "drift_hr"
    /\ IF t > 20
       THEN /\ virtual_vitals' =
                 [virtual_vitals EXCEPT !.hr = (t - 20) * 2 * U]
            /\ sim_pc' = "drift_spo2"
       ELSE /\ sim_pc' = "sleep"
            /\ UNCHANGED virtual_vitals
    /\ UNCHANGED <<t, noise_hr, noise_spo2, hVars, cVars>>

\* lines 50, 51: if t > 20: virtual_vitals["hr"] += (t - 20) * 2
SimDriftHr ==
    /\ sim_pc = "drift_hr"
    /\ IF t > 20
       THEN /\ virtual_vitals' =
                 [virtual_vitals EXCEPT !.hr = @ + (t - 20) * 2 * U]
            /\ sim_pc' = "drift_spo2"
       ELSE /\ sim_pc' = "sleep"
            /\ UNCHANGED virtual_vitals
    /\ UNCHANGED <<t, noise_hr, noise_spo2, hVars, cVars>>

\* line 52 with += for -=
SimDriftSpo2_plus ==
    /\ sim_pc = "drift_spo2"
    /\ virtual_vitals' =
         [virtual_vitals EXCEPT !.spo2 = @ + ((t - 20) * U) \div 2]
    /\ sim_pc' = "sleep"
    /\ UNCHANGED <<t, noise_hr, noise_spo2, hVars, cVars>>

\* line 52: virtual_vitals["spo2"] -= (t - 20) * 0.5
SimDriftSpo2 ==
    /\ sim_pc = "drift_spo2"
    /\ virtual_vitals' =
         [virtual_vitals EXCEPT !.spo2 = @ - ((t - 20) * U) \div 2]
    /\ sim_pc' = "sleep"
    /\ UNCHANGED <<t, noise_hr, noise_spo2, hVars, cVars>>

\* line 54 and back to line 43: time.sleep(1) returns.  The loop never ends;
\* lastTick stops the model's counter.
SimSleep(lastTick) ==
    /\ sim_pc = "sleep"
    /\ t < lastTick
    /\ sim_pc' = "set_hr"
    /\ UNCHANGED <<virtual_vitals, t, noise_hr, noise_spo2, hVars, cVars>>

Sim(lastTick) ==
    \/ SimSetHr
    \/ SimSetSpo2
    \/ SimDriftHr
    \/ SimDriftSpo2
    \/ SimSleep(lastTick)

\* ------------------------------------------------------------------ get_data
\* line 64: a request for /data arrives; vitals names the shared dict itself
ReqStart ==
    /\ h_pc = "idle"
    /\ h_pc' = "read_hr"
    /\ resp' = <<>>
    /\ UNCHANGED <<h_hr, h_bp, h_spo2, analysis, simVars, cVars>>

\* line 65, first argument: vitals["hr"]
ReadHr ==
    /\ h_pc = "read_hr"
    /\ h_hr' = virtual_vitals.hr
    /\ h_pc' = "read_bp"
    /\ UNCHANGED <<h_bp, h_spo2, analysis, resp, simVars, cVars>>

\* line 65, second argument: vitals["bp"]
ReadBp ==
    /\ h_pc = "read_bp"
    /\ h_bp' = virtual_vitals.bp
    /\ h_pc' = "read_spo2"
    /\ UNCHANGED <<h_hr, h_spo2, analysis, resp, simVars, cVars>>

\* line 65, third argument: vitals["spo2"]
ReadSpo2 ==
    /\ h_pc = "read_spo2"
    /\ h_spo2' = virtual_vitals.spo2
    /\ h_pc' = "call"
    /\ UNCHANGED <<h_hr, h_bp, analysis, resp, simVars, cVars>>

\* line 65: analysis = engine.analyze(...)
CallAnalyze ==
    /\ h_pc = "call"
    /\ analysis' = Analyze(h_hr, h_bp, h_spo2)
    /\ h_pc' = "merge"
    /\ UNCHANGED <<h_hr, h_bp, h_spo2, resp, simVars, cVars>>

\* line 66: jsonify({**vitals, **analysis}) reads the shared dict again
Respond ==
    /\ h_pc = "merge"
    /\ resp' = <<[hr |-> virtual_vitals.hr, bp |-> virtual_vitals.bp,
                  spo2 |-> virtual_vitals.spo2,
                  score |-> analysis.score, status |-> analysis.status]>>
    /\ h_pc' = "idle"
    /\ h_hr' = 0 /\ h_bp' = 0 /\ h_spo2' = 0
    /\ analysis' = NoAnalysis
    /\ UNCHANGED <<simVars, cVars>>

Handler ==
    \/ ReadHr
    \/ ReadBp
    \/ ReadSpo2
    \/ CallAnalyze
    \/ Respond

\* --------------------------------------------------------------------- index
\* lines 68-129: GET / returns the page; its script makes an empty chart
Index ==
    /\ ~loaded
    /\ loaded' = TRUE
    /\ chart' = EmptyChart
    /\ dom' = <<>>
    /\ UNCHANGED <<polls, simVars, hVars>>

\* ----------------------------------------------------------------- fetchData
\* Math.round of a value counted in 1/U
Round(v) == (2 * v + U) \div (2 * U)

\* lines 107-108, 125: the interval timer fires and the script requests /data
FetchData ==
    /\ loaded
    /\ polls < MaxPolls
    /\ h_pc = "idle"
    /\ resp = <<>>
    /\ polls' = polls + 1
    /\ h_pc' = "read_hr"
    /\ UNCHANGED <<h_hr, h_bp, h_spo2, analysis, resp, simVars, loaded,
                   chart, dom>>

\* lines 108-122: the response arrives; the label is the time of the poll
ChartUpdate ==
    /\ loaded
    /\ resp # <<>>
    /\ LET data == resp[1]
           labels == IF Len(chart.labels) > 20
                     THEN Tail(chart.labels) ELSE chart.labels
       IN  /\ dom' = <<[hr |-> Round(data.hr), spo2 |-> Round(data.spo2),
                        score |-> data.score, alert |-> data.status,
                        color |-> IF data.score > 50 THEN "red" ELSE "green"]>>
           /\ chart' = [labels |-> Append(labels, polls),
                        hr |-> Append(chart.hr, data.hr),
                        spo2 |-> Append(chart.spo2, data.spo2)]
    /\ resp' = <<>>
    /\ UNCHANGED <<h_pc, h_hr, h_bp, h_spo2, analysis, simVars, loaded, polls>>

InitSim ==
    /\ virtual_vitals = [hr |-> 72 * U, bp |-> 120, spo2 |-> 98 * U]
    /\ t = 0
    /\ noise_hr = 0
    /\ noise_spo2 = 0
    /\ sim_pc = "set_hr"

InitClient ==
    /\ loaded = FALSE
    /\ polls = 0
    /\ chart = EmptyChart
    /\ dom = <<>>

Init ==
    /\ InitSim
    /\ InitClient
    /\ h_pc = "idle"
    /\ h_hr = 0 /\ h_bp = 0 /\ h_spo2 = 0
    /\ analysis = NoAnalysis
    /\ resp = <<>>

Next ==
    \/ Sim(MaxTick)
    \/ ReqStart
    \/ Handler
    \/ Index

Spec == Init /\ [][Next]_vars

\* analyze alone: get_data stands at the call of line 65 with any arguments
InitAnalyze ==
    /\ InitSim
    /\ InitClient
    /\ h_pc = "call"
    /\ h_hr \in ArgHr
    /\ h_bp \in ArgBp
    /\ h_spo2 \in ArgSpo2
    /\ analysis = NoAnalysis
    /\ resp = <<>>

NextAnalyze == CallAnalyze

SpecAnalyze == InitAnalyze /\ [][NextAnalyze]_vars

\* the page and its chart, polling the server during the simulator's first
\* tick; the chart keeps every value it was sent, which multiplies the states
\* of each further tick
NextChart ==
    \/ SimSetHr
    \/ SimSetSpo2
    \/ SimDriftHr
    \/ Index
    \/ FetchData
    \/ Handler
    \/ ChartUpdate

SpecChart == Init /\ [][NextChart]_vars

\* the simulator thread, which the interpreter keeps scheduling (line 57)
NextLive ==
    \/ Sim(LiveTicks)
    \/ ReqStart
    \/ Handler

SpecLive == Init /\ [][NextLive]_vars /\ WF_vars(Sim(LiveTicks))

\* ===================================================================== claims
AtReturn == h_pc = "merge"
Returned(score, status) == analysis = [score |-> score, status |-> status]

\* C1 as stated: analyze with heart rate 101 and SpO2 94 (any blood pressure)
\* returns score 60 and MODERATE RISK.
C1_Score60 ==
    (AtReturn /\ h_hr = 101 * U /\ h_spo2 = 94 * U)
        => Returned(60, "MODERATE RISK")

\* C1 amended: analyze with heart rate 101 and SpO2 94 (any blood pressure)
\* returns score 90 and CRITICAL: all three penalties fire.
C1_Score90 ==
    (AtReturn /\ h_hr = 101 * U /\ h_spo2 = 94 * U)
        => Returned(90, "CRITICAL")

C1_Witness ==
    /\ AtReturn /\ h_hr = 101 * U /\ h_spo2 = 94 * U /\ h_bp # 120
    /\ analysis.score = 90

\* C2 as stated: analyze with heart rate 95 and SpO2 95 (any blood pressure)
\* returns score 70 and MODERATE RISK.
C2_Score70 ==
    (AtReturn /\ h_hr = 95 * U /\ h_spo2 = 95 * U)
        => Returned(70, "MODERATE RISK")

\* C2 amended: analyze with heart rate 95 and SpO2 95 (any blood pressure)
\* returns score 30 and Normal: 95 < 95 is false, only the subtle penalty fires.
C2_Score30 ==
    (AtReturn /\ h_hr = 95 * U /\ h_spo2 = 95 * U)
        => Returned(30, "Normal")

C2_Witness ==
    /\ AtReturn /\ h_hr = 95 * U /\ h_spo2 = 95 * U /\ h_bp # 120
    /\ analysis.status = "Normal"

\* C3: the returned status is decided by the returned score alone: CRITICAL
\* exactly when score > 70, MODERATE RISK exactly when 40 < score <= 70,
\* Normal exactly when score <= 40.
C3_StatusOfScore ==
    AtReturn =>
        /\ analysis.status \in {"CRITICAL", "MODERATE RISK", "Normal"}
        /\ analysis.status = "CRITICAL" <=> analysis.score > 70
        /\ analysis.status = "MODERATE RISK"
              <=> (40 < analysis.score /\ analysis.score <= 70)
        /\ analysis.status = "Normal" <=> analysis.score <= 40

\* the boundary score 70 is returned, with MODERATE RISK
C3_Witness ==
    AtReturn /\ analysis.score = 70 /\ analysis.status = "MODERATE RISK"

\* the drift of tick k
Drift(k) == Max(0, k - 20)

\* C4: when tick t ends, the snapshot holds hr = 72 + noise_hr + 2*max(0,t-20)
\* and spo2 = 98 + noise_spo2 - 0.5*max(0,t-20) for that tick's samples, and
\* the tick counter only moves up by one, never back.
C4_TickFormula ==
    [][/\ t' = t \/ t' = t + 1
       /\ sim_pc' = "sleep" =>
            /\ virtual_vitals'.hr = 72 * U + noise_hr' + 2 * U * Drift(t')
            /\ 2 * virtual_vitals'.spo2
                 = 2 * (98 * U + noise_spo2') - U * Drift(t')]_vars

\* a degrading tick has ended, with noise on both signals
C4_Witness ==
    /\ sim_pc = "sleep" /\ t = 25 /\ noise_hr # 0 /\ noise_spo2 # 0
    /\ virtual_vitals.hr = 72 * U + noise_hr + 2 * U * 5

\* C5: the chart is a rolling window of 20 points: the label list and both
\* datasets hold at most 20 entries and have equal length.
C5_RollingWindow ==
    /\ Len(chart.labels) <= 20
    /\ Len(chart.hr) <= 20
    /\ Len(chart.spo2) <= 20
    /\ Len(chart.labels) = Len(chart.hr)
    /\ Len(chart.hr) = Len(chart.spo2)

\* C6: the score and status of every /data response are analyze of the hr,
\* bp and spo2 in that same response.
C6_ResponseEvaluated ==
    resp # <<>> =>
        [score |-> resp[1].score, status |-> resp[1].status]
            = Analyze(resp[1].hr, resp[1].bp, resp[1].spo2)

\* C7: the bp field of the shared snapshot is 120 in every state, and so is
\* the bp of every /data response.
C7_BpConstant ==
    /\ virtual_vitals.bp = 120
    /\ resp # <<>> => resp[1].bp = 120

\* a response sent while the simulator is degrading
C7_Witness ==
    resp # <<>> /\ resp[1].bp = 120 /\ t > 20 /\ resp[1].hr > 74 * U

\* the ticks that have ended
Completed == IF sim_pc \in {"sleep", "set_hr"} THEN t ELSE t - 1

\* (hr, spo2) is the initial pair or what some ended tick could have left
EndOfTickPair(hr, spo2) ==
    \/ hr = 72 * U /\ spo2 = 98 * U
    \/ \E k \in 1..Completed, nh \in NoiseHr, ns \in NoiseSpo2 :
         /\ hr = 72 * U + nh + 2 * U * Drift(k)
         /\ 2 * spo2 = 2 * (98 * U + ns) - U * Drift(k)

\* C8: the (hr, spo2) pair get_data passes to analyze is the initial pair or
\* the pair left by one ended tick: never hr and spo2 of different ticks,
\* never a value still missing its tick's drift.
C8_ConsistentRead ==
    h_pc \in {"call", "merge"} => EndOfTickPair(h_hr, h_spo2)

\* C9: the score before the clamp is between 0 and 90, so the clamp changes
\* nothing and the returned score is within 0..100.
C9_ClampUnreached ==
    AtReturn =>
        /\ Score(h_hr, h_bp, h_spo2) \in 0..90
        /\ analysis.score = Score(h_hr, h_bp, h_spo2)
        /\ analysis.score \in 0..100

\* all three penalties fired
C9_Witness ==
    AtReturn /\ analysis.score = 90 /\ h_hr > 100 * U /\ h_spo2 < 95 * U

Critical ==
    Analyze(virtual_vitals.hr, virtual_vitals.bp, virtual_vitals.spo2)
        = [score |-> 90, status |-> "CRITICAL"]

\* C10: with bounded noise and a fairly scheduled simulator, from some tick on
\* every end-of-tick snapshot evaluates to score 90 and CRITICAL.
C10_EventuallyCritical == <>[](sim_pc = "sleep" => Critical)

\* the last tick's snapshot is CRITICAL under the lowest heart-rate noise
C10_Witness ==
    sim_pc = "sleep" /\ Critical /\ t = LiveTicks /\ noise_hr = -HrNoiseMax
====
